---- MODULE Spec2Model ----
(***************************************************************************)
(* ReportPage (frontend/src/pages/ReportPage.jsx): the report view, its    *)
(* mount effect with the background refresher, fetchReport, and the        *)
(* handleReanalyze cycle (trigger, settling wait, pollForResults loop,     *)
(* success notification).  One step of the model is one task of the        *)
(* browser's event loop: a user event, a timer callback, or the            *)
(* continuation of a settled request together with the microtasks it       *)
(* schedules.  HistoryPage (frontend/src/pages/HistoryPage.jsx) is         *)
(* modelled beside it, with a specification of its own, and so are the     *)
(* routes of App (frontend/src/App.jsx) with the response interceptor of   *)
(* the axios instance (frontend/src/services/api.js).                      *)
(***************************************************************************)
EXTENDS Integers, FiniteSets, Sequences, TLC

\* ---- bounds of the model ----
MaxCycles == 2      \* handleReanalyze invocations that may be alive at once
MaxOrphans == 1     \* success timers that may be pending beside the one the ref holds
MaxInflight == 2    \* fetchReport requests that may be in flight at once
MaxRefs == 2        \* reference_ids the history may list
MaxDeletes == 2     \* handleDelete invocations that may be awaiting at once
MaxHistoryInflight == 1   \* fetchHistory requests that may be in flight at once

\* ---- program constants ----
maxAttempts == 15
settlingMs == 2000      \* setTimeout(resolve, 2000) after the trigger
interPollMs == 1000     \* setTimeout(resolve, 1000) between two polls

Ids == {1, 2}
Statuses == {"processing", "completed", "failed"}
Terminal == {"completed", "failed"}

LoadErrorMsg == "Failed to load report"
PollErrorMsg == "Analysis may still be in progress. Please refresh."
ReanalyzeErrorMsg == "Failed to reanalyze. Please try again."

NoData == [ref |-> 0, status |-> "none"]
Record(i, s) == [ref |-> i, status |-> s]

Cycles == 1..MaxCycles

VARIABLES
    id,                 \* useParams().id of the current render
    data,               \* useState(null)
    loading,            \* useState(true)
    error,              \* useState('')
    reanalyzing,        \* useState(false)
    showSuccessMessage, \* useState(false)
    isMounted,          \* useRef(true).current
    successTimeoutRef,  \* useRef(null).current: "scheduled" when it holds the handle of
                        \* a timer still scheduled, "none" when null or a spent handle
    orphanTimers,       \* success timers still scheduled whose handle the ref lost
    interval,           \* the refresher's setInterval and what its closure captured
    reports,            \* fetchReport requests in flight, per captured id
    cycles              \* the handleReanalyze invocations and where each one stands

\* HistoryPage
VARIABLES
    references,         \* useState([]): the reference_ids of the rows, in order
    historyLoading,     \* useState(true)   (loading of HistoryPage)
    historyError,       \* useState('')     (error of HistoryPage)
    historyRequests,    \* getHistory requests in flight
    deletes             \* the handleDelete invocations and where each one stands

\* App and services/api.js
VARIABLES
    isAuthenticated,    \* useAuth().isAuthenticated of the current render of App
    location,           \* the router's location.pathname
    element,            \* the element <Routes> rendered for location
    localStorage,       \* the items 'token' and 'user' of window.localStorage
    outcome             \* how the last response passed the response interceptor

observable == <<data, loading, error, reanalyzing, showSuccessMessage>>
reportVars == <<id, data, loading, error, reanalyzing, showSuccessMessage, isMounted,
                successTimeoutRef, orphanTimers, interval, reports, cycles>>
historyVars == <<references, historyLoading, historyError, historyRequests, deletes>>
appVars == <<isAuthenticated, location, element, localStorage, outcome>>
vars == <<reportVars, historyVars, appVars>>

\* A handleReanalyze invocation: pc is the await it is suspended at, cid the id
\* its closure captured, attempts its local counter; the other fields record
\* what it has done so far (last is the status of the response it read last).
NoCycle == [pc |-> "idle", cid |-> 0, attempts |-> 0, triggers |-> 0, settles |-> 0,
            calls |-> 0, waits |-> 0, responses |-> 0, firstTerminalAt |-> 0,
            last |-> "none", outcome |-> "none"]

Active(c) == cycles[c].pc \in {"triggering", "settling", "fetching", "waiting"}
ActiveCycles == {c \in Cycles : Active(c)}

NoInterval == [active |-> FALSE, seen |-> "none", fid |-> 0]

\* setInterval(() => { if (data?.reference?.status === 'processing') fetchReport() }, 3000):
\* the callback closes over the data and the fetchReport of the render that ran the effect
MountInterval(i) == [active |-> TRUE, seen |-> data.status, fid |-> i]

InFlight == reports[1] + reports[2]

RefIds == 1..MaxRefs
DeleteSlots == 1..MaxDeletes

HistoryErrorMsg == "Failed to load reference history"

\* A handleDelete invocation: id is its argument, references the array its
\* closure captured (dropped once the invocation has returned), answer what
\* confirm() returned, calls the deleteReference calls it has made.
NoDelete == [pc |-> "idle", id |-> 0, references |-> <<>>, answer |-> FALSE, calls |-> 0]

\* HistoryPage after its first render and mount effect: fetchHistory() is in flight
HistoryInit ==
    /\ references = <<>>
    /\ historyLoading = TRUE
    /\ historyError = ""
    /\ historyRequests = 1
    /\ deletes = [d \in DeleteSlots |-> NoDelete]

\* ---- the routes of App ----
ProtectedPaths == {"/check", "/report/:id", "/history", "/profile"}
Paths == {"/"} \cup ProtectedPaths \cup {"/unknown"}

Page(name) == [kind |-> "page", name |-> name, to |-> ""]
NavigateTo(path) == [kind |-> "navigate", name |-> "", to |-> path]

ProtectedPages == {"CheckReferencePage", "ReportPage", "HistoryPage", "ProfilePage"}

\* the routes with /history left unguarded
RouteElementHistoryOpen(path, auth) ==
    CASE path = "/" -> IF auth THEN NavigateTo("/check") ELSE Page("LandingPage")
      [] path = "/check" -> IF auth THEN Page("CheckReferencePage") ELSE NavigateTo("/")
      [] path = "/report/:id" -> IF auth THEN Page("ReportPage") ELSE NavigateTo("/")
      [] path = "/history" -> Page("HistoryPage")
      [] path = "/profile" -> IF auth THEN Page("ProfilePage") ELSE NavigateTo("/")
      [] OTHER -> NavigateTo(IF auth THEN "/check" ELSE "/")

\* <Routes>: the element of the <Route> that matches path
RouteElement(path, auth) ==
    CASE path = "/" -> IF auth THEN NavigateTo("/check") ELSE Page("LandingPage")
      [] path = "/check" -> IF auth THEN Page("CheckReferencePage") ELSE NavigateTo("/")
      [] path = "/report/:id" -> IF auth THEN Page("ReportPage") ELSE NavigateTo("/")
      [] path = "/history" -> IF auth THEN Page("HistoryPage") ELSE NavigateTo("/")
      [] path = "/profile" -> IF auth THEN Page("ProfilePage") ELSE NavigateTo("/")
      [] OTHER -> NavigateTo(IF auth THEN "/check" ELSE "/")

\* ---- localStorage and the responses of the axios instance ----
Items == [token : {"absent", "present"}, user : {"absent", "present"}]

\* the errors the response interceptor may be handed: without a response
\* (error.response undefined) or with a response of some status
Errors ==
    {[response |-> FALSE, status |-> 0]} \cup
    {[response |-> TRUE, status |-> s] : s \in {400, 401, 403, 404, 500}}

NoOutcome == [kind |-> "none", response |-> FALSE, status |-> 0]

\* an authenticated session on a report page, nothing answered yet
AppBoot ==
    /\ isAuthenticated = TRUE
    /\ location = "/report/:id"
    /\ element = RouteElement("/report/:id", TRUE)
    /\ localStorage = [token |-> "present", user |-> "present"]
    /\ outcome = NoOutcome

\* the application loaded at any path, in any auth state, with any storage
AppStart ==
    /\ isAuthenticated \in BOOLEAN
    /\ location \in Paths
    /\ element = RouteElement(location, isAuthenticated)
    /\ localStorage \in Items
    /\ outcome = NoOutcome

ReportInit ==
    /\ id = 1
    /\ data = NoData
    /\ loading = TRUE
    /\ error = ""
    /\ reanalyzing = FALSE
    /\ showSuccessMessage = FALSE
    /\ isMounted = TRUE
    /\ successTimeoutRef = "none"
    /\ orphanTimers = 0
    /\ interval = [active |-> TRUE, seen |-> "none", fid |-> 1]
    /\ reports = [i \in Ids |-> IF i = 1 THEN 1 ELSE 0]
    /\ cycles = [c \in Cycles |-> NoCycle]

Init == ReportInit /\ HistoryInit /\ AppBoot

\* the setter without its liveness check
Unguarded(new, old) == new

\* if (isMounted.current) { set(new) }
Guarded(new, old) == IF isMounted THEN new ELSE old

\* ---- fetchReport ----
FetchReportResolve(i, s) ==
    /\ reports[i] > 0
    /\ reports' = [reports EXCEPT ![i] = @ - 1]
    /\ data' = Guarded(Record(i, s), data)
    /\ loading' = Guarded(FALSE, loading)
    /\ UNCHANGED <<id, error, reanalyzing, showSuccessMessage, isMounted,
                   successTimeoutRef, orphanTimers, interval, cycles>>
    /\ UNCHANGED <<historyVars, appVars>>

FetchReportReject(i) ==
    /\ reports[i] > 0
    /\ reports' = [reports EXCEPT ![i] = @ - 1]
    /\ error' = Guarded(LoadErrorMsg, error)
    /\ loading' = Guarded(FALSE, loading)
    /\ UNCHANGED <<id, data, reanalyzing, showSuccessMessage, isMounted,
                   successTimeoutRef, orphanTimers, interval, cycles>>
    /\ UNCHANGED <<historyVars, appVars>>

\* ---- the mount effect and its cleanup ----
\* if (successTimeoutRef.current) clearTimeout(successTimeoutRef.current):
\* the ref keeps the handle, now spent
ClearSuccessTimeout == "none"

\* the component unmounts: the effect's cleanup runs and nothing mounts again
Unmount ==
    /\ isMounted
    /\ isMounted' = FALSE
    /\ interval' = NoInterval
    /\ successTimeoutRef' = ClearSuccessTimeout
    /\ UNCHANGED <<id, data, loading, error, reanalyzing, showSuccessMessage,
                   orphanTimers, reports, cycles>>
    /\ UNCHANGED <<historyVars, appVars>>

\* the route parameter changes in the mounted component: the cleanup of the
\* old effect and the new effect run back to back in the same commit
ChangeId(j) ==
    /\ isMounted
    /\ j # id
    /\ InFlight < MaxInflight
    /\ id' = j
    /\ isMounted' = TRUE
    /\ successTimeoutRef' = ClearSuccessTimeout
    /\ reports' = [reports EXCEPT ![j] = @ + 1]
    /\ interval' = MountInterval(j)
    /\ UNCHANGED <<data, loading, error, reanalyzing, showSuccessMessage,
                   orphanTimers, cycles>>
    /\ UNCHANGED <<historyVars, appVars>>

\* the refresher's interval callback
RefresherFetches == interval.seen = "processing"

Tick ==
    /\ interval.active
    /\ IF RefresherFetches
       THEN /\ InFlight < MaxInflight
            /\ reports' = [reports EXCEPT ![interval.fid] = @ + 1]
       ELSE UNCHANGED reports
    /\ UNCHANGED <<id, data, loading, error, reanalyzing, showSuccessMessage,
                   isMounted, successTimeoutRef, orphanTimers, interval, cycles>>
    /\ UNCHANGED <<historyVars, appVars>>

\* ---- handleReanalyze ----
\* the button without disabled={reanalyzing} and without the reanalyzing panel
CanReanalyzeNeverDisabled ==
    /\ ~loading
    /\ data # NoData
    /\ data.status # "processing"

\* the Reanalyze / Retry button is rendered and enabled
CanReanalyze ==
    /\ ~loading
    /\ data # NoData
    /\ data.status # "processing"
    /\ ~reanalyzing

PendingSuccessTimers == orphanTimers + (IF successTimeoutRef = "scheduled" THEN 1 ELSE 0)

FreeCycle == CHOOSE c \in Cycles : ~Active(c) /\ \A d \in Cycles : ~Active(d) => c <= d

\* handleReanalyze with its counters kept from the previous invocation
HandleReanalyzeKeepsCounters ==
    /\ isMounted
    /\ CanReanalyze
    /\ \E c \in Cycles : ~Active(c)
    /\ PendingSuccessTimers + Cardinality(ActiveCycles) <= MaxOrphans
    /\ reanalyzing' = TRUE
    /\ error' = ""
    /\ showSuccessMessage' = FALSE
    /\ cycles' = [cycles EXCEPT ![FreeCycle].pc = "triggering", ![FreeCycle].cid = id,
                                ![FreeCycle].triggers = 1, ![FreeCycle].outcome = "none"]
    /\ UNCHANGED <<id, data, loading, isMounted, successTimeoutRef, orphanTimers,
                   interval, reports>>
    /\ UNCHANGED <<historyVars, appVars>>

HandleReanalyze ==
    /\ isMounted
    /\ CanReanalyze
    /\ \E c \in Cycles : ~Active(c)
    /\ PendingSuccessTimers + Cardinality(ActiveCycles) <= MaxOrphans
    /\ reanalyzing' = TRUE
    /\ error' = ""
    /\ showSuccessMessage' = FALSE
    /\ cycles' = [cycles EXCEPT ![FreeCycle] = [NoCycle EXCEPT !.pc = "triggering", !.cid = id,
                                                              !.triggers = 1]]
    /\ UNCHANGED <<id, data, loading, isMounted, successTimeoutRef, orphanTimers,
                   interval, reports>>
    /\ UNCHANGED <<historyVars, appVars>>

\* the poll loop entered without the settling wait
ReanalyzeResolveNoSettle(c) ==
    /\ cycles[c].pc = "triggering"
    /\ cycles' = [cycles EXCEPT ![c].pc = "fetching", ![c].calls = @ + 1]
    /\ UNCHANGED <<id, data, loading, error, reanalyzing, showSuccessMessage, isMounted,
                   successTimeoutRef, orphanTimers, interval, reports>>
    /\ UNCHANGED <<historyVars, appVars>>

\* await referenceAPI.reanalyze(id) resolves; the settling timer is scheduled
ReanalyzeResolve(c) ==
    /\ cycles[c].pc = "triggering"
    /\ cycles' = [cycles EXCEPT ![c].pc = "settling", ![c].settles = @ + 1]
    /\ UNCHANGED <<id, data, loading, error, reanalyzing, showSuccessMessage, isMounted,
                   successTimeoutRef, orphanTimers, interval, reports>>
    /\ UNCHANGED <<historyVars, appVars>>

\* the rejection swallowed, so the cycle goes on to the settling wait
ReanalyzeRejectSwallowed(c) ==
    /\ cycles[c].pc = "triggering"
    /\ cycles' = [cycles EXCEPT ![c].pc = "settling", ![c].settles = @ + 1,
                                ![c].outcome = "triggerFailed"]
    /\ UNCHANGED <<id, data, loading, error, reanalyzing, showSuccessMessage, isMounted,
                   successTimeoutRef, orphanTimers, interval, reports>>
    /\ UNCHANGED <<historyVars, appVars>>

\* the outer catch without the finally that resets reanalyzing
ReanalyzeRejectNoFinally(c) ==
    /\ cycles[c].pc = "triggering"
    /\ cycles' = [cycles EXCEPT ![c].pc = "done", ![c].outcome = "triggerFailed"]
    /\ error' = Guarded(ReanalyzeErrorMsg, error)
    /\ UNCHANGED <<id, data, loading, reanalyzing, showSuccessMessage, isMounted,
                   successTimeoutRef, orphanTimers, interval, reports>>
    /\ UNCHANGED <<historyVars, appVars>>

\* the rejection caught around the trigger alone, so the success tail runs
ReanalyzeRejectThenNotice(c) ==
    /\ cycles[c].pc = "triggering"
    /\ cycles' = [cycles EXCEPT ![c].pc = "done", ![c].outcome = "triggerFailed"]
    /\ error' = Guarded(ReanalyzeErrorMsg, error)
    /\ showSuccessMessage' = Guarded(TRUE, showSuccessMessage)
    /\ successTimeoutRef' = Guarded("scheduled", successTimeoutRef)
    /\ orphanTimers' = Guarded(PendingSuccessTimers, orphanTimers)
    /\ reanalyzing' = Guarded(FALSE, reanalyzing)
    /\ UNCHANGED <<id, data, loading, isMounted, interval, reports>>
    /\ UNCHANGED <<historyVars, appVars>>

\* await referenceAPI.reanalyze(id) rejects: the outer catch and finally
ReanalyzeReject(c) ==
    /\ cycles[c].pc = "triggering"
    /\ cycles' = [cycles EXCEPT ![c].pc = "done", ![c].outcome = "triggerFailed"]
    /\ error' = Guarded(ReanalyzeErrorMsg, error)
    /\ reanalyzing' = Guarded(FALSE, reanalyzing)
    /\ UNCHANGED <<id, data, loading, showSuccessMessage, isMounted,
                   successTimeoutRef, orphanTimers, interval, reports>>
    /\ UNCHANGED <<historyVars, appVars>>

\* the settling timer fires; pollForResults() issues the first getReference
SettleElapse(c) ==
    /\ cycles[c].pc = "settling"
    /\ cycles' = [cycles EXCEPT ![c].pc = "fetching", ![c].calls = @ + 1]
    /\ UNCHANGED <<id, data, loading, error, reanalyzing, showSuccessMessage, isMounted,
                   successTimeoutRef, orphanTimers, interval, reports>>
    /\ UNCHANGED <<historyVars, appVars>>

\* the retry test without the status check
ShouldRetryAnyStatus(s, attempts) == attempts < maxAttempts

\* the retry test without the attempt budget
ShouldRetryUnbounded(s, attempts) == s = "processing"

\* the retry test with <= for <
ShouldRetryInclusive(s, attempts) == s = "processing" /\ attempts <= maxAttempts

\* response.data.reference.status === 'processing' && attempts < maxAttempts
ShouldRetry(s, attempts) == s = "processing" /\ attempts < maxAttempts

\* the tail without the success notification
SuccessTailNoNotice ==
    /\ reanalyzing' = Guarded(FALSE, reanalyzing)
    /\ UNCHANGED <<showSuccessMessage, successTimeoutRef, orphanTimers>>

\* the tail without the finally block that resets reanalyzing
SuccessTailKeepsReanalyzing ==
    /\ showSuccessMessage' = Guarded(TRUE, showSuccessMessage)
    /\ successTimeoutRef' = Guarded("scheduled", successTimeoutRef)
    /\ orphanTimers' = Guarded(PendingSuccessTimers, orphanTimers)
    /\ UNCHANGED reanalyzing

\* after await pollForResults(): the success notification and its timer, then finally
SuccessTail ==
    /\ showSuccessMessage' = Guarded(TRUE, showSuccessMessage)
    /\ successTimeoutRef' = Guarded("scheduled", successTimeoutRef)
    /\ orphanTimers' = Guarded(PendingSuccessTimers, orphanTimers)
    /\ reanalyzing' = Guarded(FALSE, reanalyzing)

NoteResponse(cy, s) ==
    [cy EXCEPT !.responses = @ + 1, !.last = s,
               !.firstTerminalAt = IF @ = 0 /\ s \in Terminal THEN cy.responses + 1 ELSE @]

\* the retry issuing the next getReference at once, without awaiting the
\* inter-poll timer it schedules
PollResponseFetchesEagerly(c, s) ==
    /\ cycles[c].pc = "fetching"
    /\ IF ShouldRetry(s, cycles[c].attempts)
       THEN /\ cycles' = [cycles EXCEPT ![c] = [NoteResponse(@, s) EXCEPT
                              !.attempts = @ + 1, !.waits = @ + 1, !.calls = @ + 1,
                              !.pc = "waiting"]]
            /\ UNCHANGED <<data, error, reanalyzing, showSuccessMessage,
                           successTimeoutRef, orphanTimers>>
       ELSE /\ cycles' = [cycles EXCEPT ![c] = [NoteResponse(@, s) EXCEPT
                              !.pc = "done",
                              !.outcome = IF s \in Terminal THEN "terminal" ELSE "exhausted"]]
            /\ data' = Guarded(Record(cycles[c].cid, s), data)
            /\ SuccessTail
            /\ UNCHANGED error
    /\ UNCHANGED <<id, loading, isMounted, interval, reports>>
    /\ UNCHANGED <<historyVars, appVars>>

\* every response of the loop cached, the 'processing' ones included
PollResponseCachesEach(c, s) ==
    /\ cycles[c].pc = "fetching"
    /\ data' = Guarded(Record(cycles[c].cid, s), data)
    /\ IF ShouldRetry(s, cycles[c].attempts)
       THEN /\ cycles' = [cycles EXCEPT ![c] = [NoteResponse(@, s) EXCEPT
                              !.attempts = @ + 1, !.waits = @ + 1, !.pc = "waiting"]]
            /\ UNCHANGED <<error, reanalyzing, showSuccessMessage,
                           successTimeoutRef, orphanTimers>>
       ELSE /\ cycles' = [cycles EXCEPT ![c] = [NoteResponse(@, s) EXCEPT
                              !.pc = "done",
                              !.outcome = IF s \in Terminal THEN "terminal" ELSE "exhausted"]]
            /\ SuccessTail
            /\ UNCHANGED error
    /\ UNCHANGED <<id, loading, isMounted, interval, reports>>
    /\ UNCHANGED <<historyVars, appVars>>

\* the loop's last response cached only when its status is 'completed'
PollResponseKeepsFailed(c, s) ==
    /\ cycles[c].pc = "fetching"
    /\ IF ShouldRetry(s, cycles[c].attempts)
       THEN /\ cycles' = [cycles EXCEPT ![c] = [NoteResponse(@, s) EXCEPT
                              !.attempts = @ + 1, !.waits = @ + 1, !.pc = "waiting"]]
            /\ UNCHANGED <<data, error, reanalyzing, showSuccessMessage,
                           successTimeoutRef, orphanTimers>>
       ELSE /\ cycles' = [cycles EXCEPT ![c] = [NoteResponse(@, s) EXCEPT
                              !.pc = "done",
                              !.outcome = IF s \in Terminal THEN "terminal" ELSE "exhausted"]]
            /\ data' = IF s = "failed" THEN data ELSE Guarded(Record(cycles[c].cid, s), data)
            /\ SuccessTail
            /\ UNCHANGED error
    /\ UNCHANGED <<id, loading, isMounted, interval, reports>>
    /\ UNCHANGED <<historyVars, appVars>>

\* a getReference of the poll loop resolves with status s
PollResponse(c, s) ==
    /\ cycles[c].pc = "fetching"
    /\ IF ShouldRetry(s, cycles[c].attempts)
       THEN /\ cycles' = [cycles EXCEPT ![c] = [NoteResponse(@, s) EXCEPT
                              !.attempts = @ + 1, !.waits = @ + 1, !.pc = "waiting"]]
            /\ UNCHANGED <<data, error, reanalyzing, showSuccessMessage,
                           successTimeoutRef, orphanTimers>>
       ELSE /\ cycles' = [cycles EXCEPT ![c] = [NoteResponse(@, s) EXCEPT
                              !.pc = "done",
                              !.outcome = IF s \in Terminal THEN "terminal" ELSE "exhausted"]]
            /\ data' = Guarded(Record(cycles[c].cid, s), data)
            /\ SuccessTail
            /\ UNCHANGED error
    /\ UNCHANGED <<id, loading, isMounted, interval, reports>>
    /\ UNCHANGED <<historyVars, appVars>>

\* the rejection counted as an attempt and retried after the inter-poll wait
PollRejectRetried(c) ==
    /\ cycles[c].pc = "fetching"
    /\ IF cycles[c].attempts < maxAttempts
       THEN /\ cycles' = [cycles EXCEPT ![c].pc = "waiting", ![c].attempts = @ + 1,
                                       ![c].waits = @ + 1, ![c].outcome = "pollError"]
            /\ UNCHANGED <<error, reanalyzing, showSuccessMessage,
                           successTimeoutRef, orphanTimers>>
       ELSE /\ cycles' = [cycles EXCEPT ![c].pc = "done", ![c].outcome = "pollError"]
            /\ error' = Guarded(PollErrorMsg, error)
            /\ SuccessTail
    /\ UNCHANGED <<id, data, loading, isMounted, interval, reports>>
    /\ UNCHANGED <<historyVars, appVars>>

\* the rejection absorbed without writing the error slot
PollRejectSilent(c) ==
    /\ cycles[c].pc = "fetching"
    /\ cycles' = [cycles EXCEPT ![c].pc = "done", ![c].outcome = "pollError"]
    /\ SuccessTail
    /\ UNCHANGED <<id, data, loading, error, isMounted, interval, reports>>
    /\ UNCHANGED <<historyVars, appVars>>

\* a getReference of the poll loop rejects: the inner catch, then the code
\* after await pollForResults()
PollReject(c) ==
    /\ cycles[c].pc = "fetching"
    /\ cycles' = [cycles EXCEPT ![c].pc = "done", ![c].outcome = "pollError"]
    /\ error' = Guarded(PollErrorMsg, error)
    /\ SuccessTail
    /\ UNCHANGED <<id, data, loading, isMounted, interval, reports>>
    /\ UNCHANGED <<historyVars, appVars>>

\* the retry recursing into handleReanalyze instead of pollForResults
InterPollElapseRetriggers(c) ==
    /\ cycles[c].pc = "waiting"
    /\ cycles' = [cycles EXCEPT ![c].pc = "triggering", ![c].triggers = @ + 1]
    /\ UNCHANGED <<id, data, loading, error, reanalyzing, showSuccessMessage, isMounted,
                   successTimeoutRef, orphanTimers, interval, reports>>
    /\ UNCHANGED <<historyVars, appVars>>

\* the retry waiting a second interval before it fetches again
InterPollElapseWaitsAgain(c) ==
    /\ cycles[c].pc = "waiting"
    /\ cycles' = [cycles EXCEPT ![c].pc = "fetching", ![c].calls = @ + 1,
                                ![c].waits = @ + 1]
    /\ UNCHANGED <<id, data, loading, error, reanalyzing, showSuccessMessage, isMounted,
                   successTimeoutRef, orphanTimers, interval, reports>>
    /\ UNCHANGED <<historyVars, appVars>>

\* the inter-poll timer fires; pollForResults() recurses and issues a getReference
InterPollElapse(c) ==
    /\ cycles[c].pc = "waiting"
    /\ cycles' = [cycles EXCEPT ![c].pc = "fetching", ![c].calls = @ + 1]
    /\ UNCHANGED <<id, data, loading, error, reanalyzing, showSuccessMessage, isMounted,
                   successTimeoutRef, orphanTimers, interval, reports>>
    /\ UNCHANGED <<historyVars, appVars>>

\* the success timer's callback; held is whether the ref still holds its handle
SuccessTimerFire(held) ==
    /\ IF held
       THEN /\ successTimeoutRef = "scheduled"
            /\ successTimeoutRef' = "none"
            /\ UNCHANGED orphanTimers
       ELSE /\ orphanTimers > 0
            /\ orphanTimers' = orphanTimers - 1
            /\ UNCHANGED successTimeoutRef
    /\ showSuccessMessage' = Guarded(FALSE, showSuccessMessage)
    /\ UNCHANGED <<id, data, loading, error, reanalyzing, isMounted,
                   interval, reports, cycles>>
    /\ UNCHANGED <<historyVars, appVars>>

Next ==
    \/ \E i \in Ids, s \in Statuses : FetchReportResolve(i, s)
    \/ \E i \in Ids : FetchReportReject(i)
    \/ Unmount
    \/ \E j \in Ids : ChangeId(j)
    \/ Tick
    \/ HandleReanalyze
    \/ \E c \in Cycles : ReanalyzeResolve(c)
    \/ \E c \in Cycles : ReanalyzeReject(c)
    \/ \E c \in Cycles : SettleElapse(c)
    \/ \E c \in Cycles, s \in Statuses : PollResponse(c, s)
    \/ \E c \in Cycles : PollReject(c)
    \/ \E c \in Cycles : InterPollElapse(c)
    \/ \E held \in BOOLEAN : SuccessTimerFire(held)

Spec == Init /\ [][Next]_vars
\* ---- what the component renders (the returns of ReportPage) ----
View ==
    IF loading THEN "loading"
    ELSE IF error # "" /\ data = NoData THEN "errorPage"
    ELSE IF data = NoData THEN "crash"
    ELSE IF data.status = "processing" \/ reanalyzing THEN "inProgress"
    ELSE IF data.status = "failed" THEN "failedPanel"
    ELSE "report"

SuccessShown == View = "report" /\ showSuccessMessage
ErrorShown == View = "errorPage" \/ (View = "report" /\ error # "")

\* timers still scheduled: the refresher interval, the success timers, the
\* settling timers and the inter-poll timers
ScheduledTimers ==
    (IF interval.active THEN 1 ELSE 0) + PendingSuccessTimers
    + Cardinality({c \in Cycles : cycles[c].pc \in {"settling", "waiting"}})

\* ---------------------------------------------------------------------------
\* C1: a cycle whose every getReference response is 'processing' makes exactly
\* maxAttempts getReference calls, separated by maxAttempts - 1 inter-poll
\* waits, and then ends.
C1_ExactlyMaxAttemptsCalls ==
    \A c \in Cycles :
        cycles[c].outcome = "exhausted" =>
            cycles[c].calls = maxAttempts /\ cycles[c].waits = maxAttempts - 1

\* C2: when the k-th response of a cycle is the first with status completed or
\* failed, the poll loop has issued exactly k getReference calls, has ended,
\* and issues none afterwards.
C2_StopsAtFirstTerminal ==
    \A c \in Cycles :
        cycles[c].firstTerminalAt # 0 =>
            /\ cycles[c].pc = "done"
            /\ cycles[c].calls = cycles[c].firstTerminalAt
            /\ cycles[c].responses = cycles[c].firstTerminalAt

C2_Witness ==
    \E c \in Cycles :
        /\ cycles[c].firstTerminalAt = maxAttempts
        /\ cycles[c].pc = "done"
        /\ cycles[c].outcome = "terminal"

\* C3: once the view has detached (isMounted.current is false), no step
\* changes data, loading, error, reanalyzing or showSuccessMessage, whichever
\* continuation runs.
C3_NoMutationAfterDetach == [][~isMounted => UNCHANGED observable]_vars

\* a cycle that was in flight at the detach has run to its end afterwards
C3_Witness ==
    /\ ~isMounted
    /\ reanalyzing
    /\ \E c \in Cycles : cycles[c].pc = "done" /\ cycles[c].outcome = "terminal"

\* C4: after the view detaches, zero timers remain scheduled.
C4_NoTimersAfterDetach == ~isMounted => ScheduledTimers = 0

\* C5: once the view has detached, a cycle issues no further getReference
\* call and schedules no further timer.
C5_InertAfterDetach ==
    [][~isMounted =>
        \A c \in Cycles : /\ cycles'[c].calls = cycles[c].calls
                          /\ cycles'[c].waits = cycles[c].waits]_vars

\* C6: a cycle whose referenceAPI.reanalyze rejected has issued zero
\* getReference calls and has entered neither the settling wait nor the poll
\* loop.
C6_TriggerFailureNoFetch ==
    \A c \in Cycles :
        cycles[c].outcome = "triggerFailed" =>
            /\ cycles[c].pc = "done"
            /\ cycles[c].settles = 0
            /\ cycles[c].calls = 0
            /\ cycles[c].waits = 0

C6_Witness ==
    \E c \in Cycles :
        /\ cycles[c].outcome = "triggerFailed"
        /\ isMounted
        /\ error = ReanalyzeErrorMsg
        /\ ~reanalyzing

PollRejectStep(c) == cycles[c].pc = "fetching" /\ cycles'[c].outcome = "pollError"

C9_SuccessAndErrorExclusive ==
    isMounted => ~(showSuccessMessage /\ error # "") /\ ~(SuccessShown /\ ErrorShown)

\* the step in which cycle c stops because its budget is exhausted
ExhaustedStep(c) == cycles[c].pc = "fetching" /\ cycles'[c].outcome = "exhausted"

TickFetches == interval.active /\ RefresherFetches

\* C11: the background refresher issues no getReference call in a state where
\* a reanalysis cycle is in flight (reanalyzing is true).
C11_RefresherSuppressedWhileReanalyzing ==
    (isMounted /\ (reanalyzing \/ ActiveCycles # {})) => ~TickFetches

\* C12: while the view is attached, the displayed record is 'processing' and
\* no reanalysis is in flight, a refresher tick performs a getReference call.
C12_RefresherFetchesWhileProcessing ==
    (isMounted /\ data.status = "processing" /\ ~reanalyzing /\ ActiveCycles = {}) =>
        TickFetches

\* C13: in a state where the displayed record's status is completed or failed,
\* or the view has detached, a refresher tick issues no getReference call.
C13_RefresherStopsOnTerminal ==
    (data.status \in Terminal \/ ~isMounted) => ~TickFetches


\* C14: at most one handleReanalyze cycle is active in every reachable state,
\* and while one is active in an attached view reanalyzing is true, so the
\* button cannot start another.
C14_AtMostOneCycle ==
    /\ Cardinality(ActiveCycles) <= 1
    /\ (isMounted /\ ActiveCycles # {}) => (reanalyzing /\ ~CanReanalyze)

\* a cycle is polling in an attached view whose record would otherwise show
\* the button
C14_Witness ==
    /\ isMounted
    /\ ~loading
    /\ data.status \in Terminal
    /\ \E c \in Cycles : cycles[c].pc = "waiting" /\ cycles[c].attempts = 2
    /\ PendingSuccessTimers = 1

\* C15: the counter attempts of every cycle satisfies 0 <= attempts <= maxAttempts.
C15_AttemptsBounded ==
    \A c \in Cycles : cycles[c].attempts >= 0 /\ cycles[c].attempts <= maxAttempts

C15_Witness ==
    \E c \in Cycles : cycles[c].attempts = maxAttempts /\ cycles[c].pc = "fetching"


\* the phase of the spec's state machine a handleReanalyze invocation is in
Phase(cy) ==
    CASE cy.pc = "idle" -> "idle"
      [] cy.pc = "triggering" -> "triggering"
      [] cy.pc = "settling" -> "settling"
      [] cy.pc \in {"fetching", "waiting"} -> "polling"
      [] cy.pc = "done" ->
            IF cy.outcome \in {"triggerFailed", "pollError"} THEN "failed" ELSE "succeeded"

\* the forward steps of a cycle; a terminal phase is left only by the user's
\* next invocation, which starts another cycle
PhaseSteps ==
    {<<"idle", "triggering">>, <<"triggering", "settling">>, <<"triggering", "failed">>,
     <<"settling", "polling">>, <<"polling", "polling">>, <<"polling", "succeeded">>,
     <<"polling", "failed">>, <<"succeeded", "triggering">>, <<"failed", "triggering">>}

\* C16: within a cycle the phase only moves forward along idle -> triggering
\* -> settling -> polling -> {succeeded, failed} (triggering -> failed on a
\* trigger rejection); only polling -> polling re-enters a phase.
C16_PhaseForward ==
    [][\A c \in Cycles :
          cycles'[c] # cycles[c] =>
              <<Phase(cycles[c]), Phase(cycles'[c])>> \in PhaseSteps]_vars

C16_Witness ==
    \E c \in Cycles :
        /\ cycles[c].pc = "done"
        /\ cycles[c].outcome = "terminal"
        /\ cycles[c].attempts = 3

\* the step in which cycle c receives the rejection of referenceAPI.reanalyze
TriggerRejectStep(c) == cycles[c].pc = "triggering" /\ cycles'[c].outcome = "triggerFailed"

\* C17: a rejected referenceAPI.reanalyze ends the cycle: one reanalyze call
\* was made and none follows unless the user re-invokes, the error slot
\* reports the trigger failure and reanalyzing is reset to false.
C17_TriggerFailureTerminal ==
    [][\A c \in Cycles :
          /\ TriggerRejectStep(c) =>
                /\ cycles'[c].pc = "done"
                /\ cycles'[c].triggers = 1
                /\ isMounted => (error' = ReanalyzeErrorMsg /\ ~reanalyzing')
          /\ (cycles[c].outcome = "triggerFailed" /\ cycles'[c] # cycles[c]) =>
                (isMounted /\ CanReanalyze /\ cycles'[c].triggers = 1)]_vars

\* the failed cycle is over and the button is enabled again
C17_Witness ==
    \E c \in Cycles :
        /\ cycles[c].pc = "done"
        /\ cycles[c].outcome = "triggerFailed"
        /\ cycles[c].triggers = 1
        /\ isMounted
        /\ error = ReanalyzeErrorMsg
        /\ CanReanalyze

\* C18: every cycle whose trigger succeeded runs the settling wait exactly
\* once, and its first getReference call happens only after reanalyze has
\* resolved and the settling timer has elapsed.
C18_SettlesExactlyOnce ==
    \A c \in Cycles :
        /\ cycles[c].settles <= 1
        /\ cycles[c].pc = "triggering" => (cycles[c].settles = 0 /\ cycles[c].calls = 0)
        /\ cycles[c].pc = "settling" => (cycles[c].settles = 1 /\ cycles[c].calls = 0)
        /\ cycles[c].pc \in {"fetching", "waiting"} => cycles[c].settles = 1
        /\ cycles[c].calls >= 1 => cycles[c].settles = 1
        /\ cycles[c].outcome \in {"terminal", "exhausted", "pollError"} => cycles[c].settles = 1

C18_Witness ==
    \E c \in Cycles :
        /\ cycles[c].pc = "fetching"
        /\ cycles[c].calls = 1
        /\ cycles[c].settles = 1
        /\ cycles[c].responses = 0

\* C19: invoking handleReanalyze after a terminal outcome starts a fresh
\* cycle: attempts = 0 and every counter zero, error cleared, the success
\* notification hidden; and every cycle's getReference count follows from its
\* own attempts alone, whatever an earlier cycle left behind.
C19_FreshCycle ==
    [][\A c \in Cycles :
          /\ (cycles[c].pc = "done" /\ cycles'[c].pc = "triggering") =>
                /\ cycles'[c] = [NoCycle EXCEPT !.pc = "triggering", !.cid = id,
                                                !.triggers = 1]
                /\ error' = ""
                /\ ~showSuccessMessage'
                /\ reanalyzing'
          /\ cycles'[c].pc = "fetching" => cycles'[c].calls = cycles'[c].attempts + 1
          /\ cycles'[c].pc = "waiting" => cycles'[c].calls = cycles'[c].attempts]_vars

\* a second cycle is under way while the success timer of the one before is
\* still scheduled
C19_Witness ==
    \E c \in Cycles :
        /\ cycles[c].pc = "fetching"
        /\ cycles[c].attempts = 0
        /\ PendingSuccessTimers = 1
        /\ isMounted
        /\ reanalyzing
        /\ error = ""
        /\ ~showSuccessMessage


\* ---------------------------------------------------------------------------
\* the continuations of cycle c: the settling of its pending request or the
\* firing of its pending timer
CycleStep(c) ==
    \/ ReanalyzeResolve(c)
    \/ ReanalyzeReject(c)
    \/ SettleElapse(c)
    \/ \E s \in Statuses : PollResponse(c, s)
    \/ PollReject(c)
    \/ InterPollElapse(c)

\* the steps of a view whose route parameter stays the same
NextOnRoute ==
    \/ \E i \in Ids, s \in Statuses : FetchReportResolve(i, s)
    \/ \E i \in Ids : FetchReportReject(i)
    \/ Unmount
    \/ Tick
    \/ HandleReanalyze
    \/ \E c \in Cycles : CycleStep(c)
    \/ \E held \in BOOLEAN : SuccessTimerFire(held)

\* every pending request eventually resolves or rejects and every pending
\* timer eventually fires
FairSpec == Init /\ [][NextOnRoute]_vars /\ \A c \in Cycles : WF_vars(CycleStep(c))

\* C20: every cycle terminates: it never issues more than maxAttempts + 1
\* getReference calls, a cycle in flight eventually stops, and in an attached
\* view reanalyzing is false once no cycle is in flight.
C20_CycleTerminates ==
    /\ [](\A c \in Cycles : cycles[c].calls <= maxAttempts + 1)
    /\ []((isMounted /\ ActiveCycles = {}) => ~reanalyzing)
    /\ (ActiveCycles # {}) ~> (ActiveCycles = {})

\* a cycle has run through its whole budget and stopped
C20_Witness ==
    \E c \in Cycles :
        /\ cycles[c].pc = "done"
        /\ cycles[c].calls = maxAttempts + 1
        /\ cycles[c].outcome \in {"exhausted", "pollError"}
        /\ isMounted
        /\ ~reanalyzing


\* ---------------------------------------------------------------------------
\* the time a cycle has spent in its own timers: the settling wait and the
\* inter-poll waits it has scheduled
ElapsedTimerMs(cy) == cy.settles * settlingMs + cy.waits * interPollMs

\* C21: a cycle that ends at its k-th fetch has made 1 reanalyze call, 1
\* settling wait, k getReference calls and k - 1 inter-poll waits; with the
\* first 14 responses 'processing' and the 15th terminal that is 15 calls, 14
\* waits and 2000 + 14 * 1000 ms of timer time.
C21_WaitsOneLessThanFetches ==
    \A c \in Cycles :
        /\ (cycles[c].pc = "done" /\ cycles[c].outcome # "triggerFailed") =>
              /\ cycles[c].triggers = 1
              /\ cycles[c].settles = 1
              /\ cycles[c].waits = cycles[c].calls - 1
              /\ ElapsedTimerMs(cycles[c]) = settlingMs + (cycles[c].calls - 1) * interPollMs
        /\ cycles[c].firstTerminalAt = 15 =>
              /\ cycles[c].calls = 15
              /\ cycles[c].waits = 14
              /\ ElapsedTimerMs(cycles[c]) = 2000 + 14 * 1000

C21_Witness ==
    \E c \in Cycles :
        /\ cycles[c].pc = "done"
        /\ cycles[c].firstTerminalAt = 15
        /\ cycles[c].responses = 15
        /\ cycles[c].triggers = 1
        /\ ElapsedTimerMs(cycles[c]) = 16000
        /\ isMounted
        /\ data = Record(cycles[c].cid, "completed")


\* the step in which cycle c reads a response with status completed or failed
TerminalStep(c) == cycles[c].pc = "fetching" /\ cycles'[c].outcome = "terminal"

\* C22: when a cycle ends on a response with status completed or failed in an
\* attached view, data becomes exactly that response, whichever of the two
\* statuses it carries.
C22_TerminalResponseCached ==
    [][\A c \in Cycles :
          (TerminalStep(c) /\ isMounted) =>
              /\ cycles'[c].last \in Terminal
              /\ data'.ref = cycles[c].cid
              /\ data'.status = cycles'[c].last]_vars

\* a cycle ended on a 'failed' response and the view shows the failed record
C22_Witness ==
    \E c \in Cycles :
        /\ cycles[c].pc = "done"
        /\ cycles[c].outcome = "terminal"
        /\ cycles[c].last = "failed"
        /\ cycles[c].attempts = 1
        /\ isMounted
        /\ data = Record(cycles[c].cid, "failed")
        /\ View = "failedPanel"


\* C23: a successful terminal transition of an attached view sets the success
\* notification and starts its timer, and the notification clears itself when
\* the 3000 ms have elapsed: while it is set in an attached view a timer that
\* will clear it is still scheduled; and a detach cancels the timer the ref
\* holds.
C23_NotificationSelfClears ==
    /\ (isMounted /\ showSuccessMessage) => PendingSuccessTimers > 0
    /\ ~isMounted => successTimeoutRef = "none"


\* the getReference requests of the poll loop of cycle cy that have been
\* issued and have neither resolved nor rejected yet
InFlightPolls(cy) == cy.calls - cy.responses - (IF cy.outcome = "pollError" THEN 1 ELSE 0)

\* C24: a poll cycle is strictly sequential: at most one getReference issued
\* by pollForResults is in flight at any time, and an inter-poll timer is
\* pending only when every request issued so far has been answered (each wait
\* follows a response).
C24_PollsSequential ==
    \A c \in Cycles :
        /\ InFlightPolls(cycles[c]) \in {0, 1}
        /\ InFlightPolls(cycles[c]) = 1 <=> cycles[c].pc = "fetching"
        /\ cycles[c].pc = "waiting" =>
              (cycles[c].calls = cycles[c].responses /\ cycles[c].last = "processing")
        /\ cycles[c].waits <= cycles[c].responses

\* the third inter-poll timer of a cycle is pending
C24_Witness ==
    \E c \in Cycles :
        /\ cycles[c].pc = "waiting"
        /\ cycles[c].waits = 3
        /\ cycles[c].calls = 3
        /\ cycles[c].responses = 3


\* C25: in an attached view reanalyzing is true in every state from the
\* handleReanalyze call until the cycle's terminal outcome, and false once the
\* cycle has ended, whichever way it ended (terminal status read, budget
\* exhausted, getReference rejected, reanalyze rejected).
C25_ReanalyzingTracksCycle ==
    /\ isMounted => (reanalyzing <=> ActiveCycles # {})
    /\ \A c \in Cycles :
          (isMounted /\ cycles[c].pc = "done" /\ ActiveCycles = {}) =>
              /\ cycles[c].outcome \in {"terminal", "exhausted", "pollError", "triggerFailed"}
              /\ ~reanalyzing

\* a cycle left through the inner catch on its third request
C25_Witness ==
    \E c \in Cycles :
        /\ cycles[c].pc = "done"
        /\ cycles[c].outcome = "pollError"
        /\ cycles[c].responses = 2
        /\ isMounted
        /\ ~reanalyzing
        /\ id = cycles[c].cid


\* C26: when the route id has changed while a handleReanalyze cycle started
\* for the old id is settling or polling, no continuation of that cycle writes
\* the old id's record, an error or the success notification into the view,
\* which now shows the new id.
C26_StaleCycleWritesNothing ==
    [][\A c \in Cycles :
          (/\ isMounted
           /\ cycles[c].pc \in {"settling", "fetching", "waiting"}
           /\ cycles[c].cid # id
           /\ cycles'[c] # cycles[c]) =>
              UNCHANGED <<data, error, showSuccessMessage>>]_vars


\* C27: after a route change a fetchReport response for the old id never
\* overwrites the record fetched for the current id: once every getReference
\* in flight has completed (none rejected, no reanalysis ever started), data
\* is the record of the current id.
C27_LatestRouteWins ==
    (/\ isMounted
     /\ InFlight = 0
     /\ \A c \in Cycles : cycles[c].pc = "idle"
     /\ error = ""
     /\ data # NoData) => data.ref = id


\* C28: at most one auto-clear timer of the success notification is scheduled
\* at any time: when a cycle stores its timer in successTimeoutRef, no timer of
\* an earlier cycle is still pending.
C28_AtMostOneSuccessTimer == PendingSuccessTimers <= 1


\* C29: a 'processing' response received while attempts < maxAttempts leaves
\* data, error and showSuccessMessage unchanged; a cycle writes data at most
\* once, in the step of the response that ends its loop.
C29_RetriedResponseWritesNothing ==
    [][\A c \in Cycles :
          /\ (cycles[c].pc = "fetching" /\ cycles'[c].pc = "waiting") =>
                /\ cycles'[c].last = "processing"
                /\ cycles[c].attempts < maxAttempts
                /\ UNCHANGED <<data, error, showSuccessMessage>>
          /\ (cycles'[c] # cycles[c] /\ data' # data) =>
                /\ cycles[c].pc = "fetching"
                /\ cycles'[c].pc = "done"
                /\ cycles'[c].outcome \in {"terminal", "exhausted"}]_vars

\* two 'processing' responses read, the record shown before the click untouched
C29_Witness ==
    \E c \in Cycles :
        /\ cycles[c].pc = "waiting"
        /\ cycles[c].responses = 2
        /\ cycles[c].last = "processing"
        /\ cycles[c].cid = id
        /\ isMounted
        /\ data = Record(id, "completed")
        /\ error = ""
        /\ ~showSuccessMessage


\* C30: when referenceAPI.reanalyze rejects, data is left unchanged,
\* showSuccessMessage stays false and the cycle schedules no timer: no
\* settling wait, no inter-poll wait, no success timer.
C30_TriggerFailureFrame ==
    [][\A c \in Cycles :
          TriggerRejectStep(c) =>
              /\ data' = data
              /\ ~showSuccessMessage /\ ~showSuccessMessage'
              /\ UNCHANGED <<successTimeoutRef, orphanTimers>>
              /\ cycles'[c].settles = 0
              /\ cycles'[c].waits = 0
              /\ cycles'[c].pc = "done"]_vars

\* the Retry of a failed report was rejected: the failed record is still shown
C30_Witness ==
    \E c \in Cycles :
        /\ cycles[c].outcome = "triggerFailed"
        /\ cycles[c].cid = id
        /\ isMounted
        /\ data = Record(id, "failed")
        /\ View = "failedPanel"
        /\ ~showSuccessMessage
        /\ ScheduledTimers = 1


\* C31: when a fetchReport for the current id resolves in an attached view and
\* no reanalysis has been started, the error slot is empty afterwards: a
\* 'Failed to load report' of an earlier load does not stay next to the
\* loaded record.
C31_LoadErrorCleared ==
    [][\A s \in Statuses :
          (/\ isMounted
           /\ \A c \in Cycles : cycles[c].pc = "idle"
           /\ FetchReportResolve(id, s)) => error' = ""]_vars


\* ---------------------------------------------------------------------------
\* HistoryPage (frontend/src/pages/HistoryPage.jsx)

\* the array [s1, ..., sn] of the ids in S, ascending
RECURSIVE ListOf(_)
ListOf(S) ==
    IF S = {} THEN <<>>
    ELSE LET m == CHOOSE x \in S : \A y \in S : x <= y
         IN  <<m>> \o ListOf(S \ {m})

\* the arrays getHistory may answer with
Histories == {ListOf(S) : S \in SUBSET RefIds}

Rows(refs) == {refs[k] : k \in 1..Len(refs)}

\* refs.filter(ref => ref.reference_id !== i)
Filter(refs, i) ==
    LET Keep(r) == r # i
    IN  SelectSeq(refs, Keep)

\* ---- fetchHistory ----
FetchHistoryResolve(list) ==
    /\ historyRequests > 0
    /\ historyRequests' = historyRequests - 1
    /\ references' = list
    /\ historyError' = ""
    /\ historyLoading' = FALSE
    /\ UNCHANGED <<deletes, reportVars, appVars>>

FetchHistoryReject ==
    /\ historyRequests > 0
    /\ historyRequests' = historyRequests - 1
    /\ historyError' = HistoryErrorMsg
    /\ references' = <<>>
    /\ historyLoading' = FALSE
    /\ UNCHANGED <<deletes, reportVars, appVars>>

\* what HistoryPage renders
HistoryView ==
    IF historyLoading THEN "loading"
    ELSE IF historyError # "" THEN "errorPage"
    ELSE IF Len(references) = 0 THEN "empty"
    ELSE "table"

\* the Try Again button of the error page: onClick={fetchHistory}
RetryHistory ==
    /\ HistoryView = "errorPage"
    /\ historyRequests < MaxHistoryInflight
    /\ historyRequests' = historyRequests + 1
    /\ UNCHANGED <<references, historyLoading, historyError, deletes, reportVars, appVars>>

\* ---- handleDelete ----
Awaiting(d) == deletes[d].pc = "awaiting"

FreeDelete == CHOOSE d \in DeleteSlots : ~Awaiting(d) /\ \A e \in DeleteSlots : ~Awaiting(e) => d <= e

\* handleDelete that removes the row at once and calls the server whatever
\* confirm() returned
HandleDeleteOptimistic(i, answer) ==
    /\ HistoryView = "table"
    /\ i \in Rows(references)
    /\ \E d \in DeleteSlots : ~Awaiting(d)
    /\ deletes' = [deletes EXCEPT ![FreeDelete] =
                      [pc |-> "awaiting", id |-> i, references |-> references,
                       answer |-> answer, calls |-> 1]]
    /\ references' = Filter(references, i)
    /\ UNCHANGED <<historyLoading, historyError, historyRequests, reportVars, appVars>>

\* the trash button of row i is clicked and confirm() returns answer:
\* if (!confirm(...)) return; then deleteReference(i) is called and awaited
HandleDelete(i, answer) ==
    /\ HistoryView = "table"
    /\ i \in Rows(references)
    /\ \E d \in DeleteSlots : ~Awaiting(d)
    /\ deletes' = [deletes EXCEPT ![FreeDelete] =
                      IF answer
                      THEN [pc |-> "awaiting", id |-> i, references |-> references,
                            answer |-> TRUE, calls |-> 1]
                      ELSE [pc |-> "declined", id |-> i, references |-> <<>>,
                            answer |-> FALSE, calls |-> 0]]
    /\ UNCHANGED <<references, historyLoading, historyError, historyRequests, reportVars, appVars>>

\* await referenceAPI.deleteReference(id) resolves:
\* setReferences(references.filter(...)) with the array the closure captured
DeleteResolve(d) ==
    /\ Awaiting(d)
    /\ references' = Filter(deletes[d].references, deletes[d].id)
    /\ deletes' = [deletes EXCEPT ![d].pc = "removed", ![d].references = <<>>]
    /\ UNCHANGED <<historyLoading, historyError, historyRequests, reportVars, appVars>>

\* the catch that removes the row although the call failed
DeleteRejectRemoves(d) ==
    /\ Awaiting(d)
    /\ references' = Filter(deletes[d].references, deletes[d].id)
    /\ deletes' = [deletes EXCEPT ![d].pc = "alerted", ![d].references = <<>>]
    /\ UNCHANGED <<historyLoading, historyError, historyRequests, reportVars, appVars>>

\* await referenceAPI.deleteReference(id) rejects: alert('Failed to delete reference')
DeleteReject(d) ==
    /\ Awaiting(d)
    /\ deletes' = [deletes EXCEPT ![d].pc = "alerted", ![d].references = <<>>]
    /\ UNCHANGED <<references, historyLoading, historyError, historyRequests, reportVars, appVars>>

HistoryNext ==
    \/ \E list \in Histories : FetchHistoryResolve(list)
    \/ FetchHistoryReject
    \/ RetryHistory
    \/ \E i \in RefIds, answer \in BOOLEAN : HandleDelete(i, answer)
    \/ \E d \in DeleteSlots : DeleteResolve(d)
    \/ \E d \in DeleteSlots : DeleteReject(d)

HistorySpec == Init /\ [][HistoryNext]_vars


\* C32: for every interleaving of handleDelete calls, once no deleteReference
\* and no getHistory is pending, references contains none of the ids whose
\* deleteReference resolved: a deleted entry never reappears.
C32_DeletedStayDeleted ==
    (historyRequests = 0 /\ \A d \in DeleteSlots : ~Awaiting(d)) =>
        \A d \in DeleteSlots :
            deletes[d].pc = "removed" => deletes[d].id \notin Rows(references)

\* the step in which invocation d ends, and how
DeleteResolveStep(d) == Awaiting(d) /\ deletes'[d].pc = "removed"
DeleteRejectStep(d) == Awaiting(d) /\ deletes'[d].pc = "alerted"

\* C33: handleDelete removes the entry only when deleteReference has resolved;
\* an invocation whose confirm() was declined makes no deleteReference call
\* and changes nothing, and a rejected call leaves references unchanged.
C33_RemovalOnlyAfterResolve ==
    [][/\ \A d \in DeleteSlots :
            /\ deletes'[d].answer = FALSE =>
                  (deletes'[d].calls = 0 /\ deletes'[d].pc \in {"idle", "declined"})
            /\ deletes'[d].pc = "declined" => deletes'[d].calls = 0
            /\ (deletes'[d] # deletes[d] /\ ~DeleteResolveStep(d)) =>
                  references' = references
            /\ DeleteResolveStep(d) => deletes[d].id \notin Rows(references')
       /\ (references' # references /\ historyRequests' = historyRequests) =>
             \E d \in DeleteSlots : DeleteResolveStep(d)]_vars

\* one delete was declined, another was rejected: both rows are still listed
C33_Witness ==
    \E d, e \in DeleteSlots :
        /\ deletes[d].pc = "declined"
        /\ deletes[e].pc = "alerted"
        /\ deletes[d].id # deletes[e].id
        /\ {deletes[d].id, deletes[e].id} \subseteq Rows(references)
        /\ Len(references) = MaxRefs


\* ---------------------------------------------------------------------------
\* App (frontend/src/App.jsx) and the response interceptor (services/api.js)

\* the user follows a link or enters an address: the router matches the path
GoTo(path) ==
    /\ path # location
    /\ location' = path
    /\ element' = RouteElement(path, isAuthenticated)
    /\ UNCHANGED <<isAuthenticated, localStorage, outcome, reportVars, historyVars>>

\* the effect of a rendered <Navigate to=... replace />
NavigateEffect ==
    /\ element.kind = "navigate"
    /\ location' = element.to
    /\ element' = RouteElement(element.to, isAuthenticated)
    /\ UNCHANGED <<isAuthenticated, localStorage, outcome, reportVars, historyVars>>

\* the session context's gate changes (login, logout) and App renders again
AuthChange ==
    /\ isAuthenticated' = ~isAuthenticated
    /\ element' = RouteElement(location, isAuthenticated')
    /\ UNCHANGED <<location, localStorage, outcome, reportVars, historyVars>>

\* (response) => response
ResponseSuccess ==
    /\ outcome' = [kind |-> "resolved", response |-> TRUE, status |-> 200]
    /\ UNCHANGED <<isAuthenticated, location, element, localStorage, reportVars, historyVars>>

\* the test taken for "any response with an error status"
IsUnauthorizedAnyStatus(err) == err.response /\ err.status >= 400

\* error.response?.status === 401
IsUnauthorized(err) == err.response /\ err.status = 401

\* (error) => { if (401) { removeItem('token'); removeItem('user');
\* window.location.href = '/' }  return Promise.reject(error) }
\* Assigning location.href loads the application again at '/', with the gate
\* its session context computes then.
ResponseError(err) ==
    /\ outcome' = [kind |-> "rejected", response |-> err.response, status |-> err.status]
    /\ IF IsUnauthorized(err)
       THEN /\ localStorage' = [token |-> "absent", user |-> "absent"]
            /\ location' = "/"
            /\ isAuthenticated' \in BOOLEAN
            /\ element' = RouteElement("/", isAuthenticated')
       ELSE UNCHANGED <<localStorage, location, isAuthenticated, element>>
    /\ UNCHANGED <<reportVars, historyVars>>

AppNext ==
    \/ \E path \in Paths : GoTo(path)
    \/ NavigateEffect
    \/ AuthChange
    \/ ResponseSuccess
    \/ \E err \in Errors : ResponseError(err)

AppInit == ReportInit /\ HistoryInit /\ AppStart

AppSpec == AppInit /\ [][AppNext]_vars

\* C34: for every protected route and every auth state the route resolves to
\* the protected page only when isAuthenticated is true and to a redirect to
\* '/' when it is false; so a protected page is on screen only in an
\* authenticated render.
C34_ProtectedNeedsAuth ==
    /\ \A path \in ProtectedPaths :
          /\ RouteElement(path, FALSE) = NavigateTo("/")
          /\ RouteElement(path, TRUE).kind = "page"
          /\ RouteElement(path, TRUE).name \in ProtectedPages
    /\ (element.kind = "page" /\ element.name \in ProtectedPages) => isAuthenticated
    /\ (location \in ProtectedPaths /\ ~isAuthenticated) => element = NavigateTo("/")

\* a 401 ended the session; /history is opened and resolves to the redirect
C34_Witness ==
    /\ ~isAuthenticated
    /\ location = "/history"
    /\ element = NavigateTo("/")
    /\ outcome.kind = "rejected"
    /\ outcome.status = 401

\* C35: the response interceptor removes 'token' and 'user' from localStorage
\* exactly when the error has a response of status 401, leaves the storage as
\* it was for every other error and for a success, and rejects with the
\* original error in both cases.
C35_StorageClearedOn401Only ==
    [][/\ \A err \in Errors :
            ResponseError(err) =>
                /\ outcome' = [kind |-> "rejected", response |-> err.response,
                               status |-> err.status]
                /\ IF err.response /\ err.status = 401
                   THEN localStorage' = [token |-> "absent", user |-> "absent"]
                   ELSE localStorage' = localStorage
       /\ localStorage' # localStorage =>
             (outcome' = [kind |-> "rejected", response |-> TRUE, status |-> 401])]_vars

\* a 403 was rejected and the stored session is still there
C35_Witness ==
    /\ outcome = [kind |-> "rejected", response |-> TRUE, status |-> 403]
    /\ localStorage = [token |-> "present", user |-> "present"]
    /\ element = Page("HistoryPage")
====
